---- MODULE Spec2Model ----
(***************************************************************************)
(* Trajectory analytics of afl-vision-insight/backend/routes:              *)
(* PlayerTrackingData (tracking_analysis.py, pandas based) and             *)
(* SimplePlayerTrackingData (tracking_analysis_simple.py, csv module and   *)
(* plain loops).  A behaviour is one request: a CSV text is parsed into a  *)
(* tracking object, then one method of the object is called.               *)
(*                                                                         *)
(* Numbers.  Every CSV cell and every Python/numpy float is an exact       *)
(* rational <<num, den>> in lowest terms with den > 0.  A cell that is not *)
(* a number is <<0, 0>>.  The rows offered to the model are chosen so that *)
(* every square root the code takes is of a perfect square, hence exact.   *)
(***************************************************************************)
EXTENDS Integers, Sequences, FiniteSets, TLC

VARIABLES
    columns,    \* header of the uploaded CSV: the set of column names present
    rows,       \* data rows of the uploaded CSV, in file order
    variant,    \* class of the tracking object: "none", "pandas", "simple"
    df,         \* self.df (pandas) / self.data (simple): the rows held
    pc,         \* "start", "constructed", "failed", "done"
    call,       \* method called on the object: "none" or its name
    arg,        \* player_id passed to the call, 0 when it takes none
    raised,     \* exception that ended the last step, NoError if none
    stats,      \* return value of get_player_stats: <<[player_id, ...], ...>>
    loop,       \* locals of get_player_stats per player: distances, speeds
    path,       \* return value of get_player_movement_path
    hm,         \* locals of the last heatmap generation, NoHeatmap if none
    files,      \* content of the directory HEATMAP_DIR
    response,   \* HTTP status an endpoint answered with, 0 if none
    reqs,       \* the requests of concurrent clients of the server
    lock,       \* MetricsStore._lock: the thread holding it, "none" if free
    data,       \* MetricsStore._data: the entry of each model
    threads,    \* the threads using the MetricsStore: position and locals
    recorded,   \* per model, the record() calls that returned, in order
    upload,     \* one upload_video request: position, locals, disk, answer
    inference   \* one run_inference request: inputs, position, answer

vars == <<columns, rows, variant, df, pc, call, arg, raised, stats, loop, path,
          hm, files, response, reqs,
          lock, data, threads, recorded, upload, inference>>

----------------------------------------------------------------------------
(* Bounds of the model.                                                    *)

MaxRows == 3

----------------------------------------------------------------------------
(* Exact rational arithmetic standing for Python float arithmetic.         *)

Abs(n) == IF n < 0 THEN -n ELSE n

RECURSIVE GCD(_, _)
GCD(a, b) == IF b = 0 THEN a ELSE GCD(b, a % b)

Norm(n, d) ==
    LET g == GCD(Abs(n), Abs(d))
        s == IF d < 0 THEN -1 ELSE 1
    IN  <<(s * n) \div g, (s * d) \div g>>

R(n) == <<n, 1>>
Zero == R(0)
BadCell == <<0, 0>>
ZeroDivisionError == <<1, 0>>
IsNumber(q) == q[2] # 0
IsInteger(q) == q[2] = 1

RAdd(a, b) == Norm(a[1] * b[2] + b[1] * a[2], a[2] * b[2])
RSub(a, b) == Norm(a[1] * b[2] - b[1] * a[2], a[2] * b[2])
RMul(a, b) == Norm(a[1] * b[1], a[2] * b[2])
RLess(a, b) == a[1] * b[2] < b[1] * a[2]
RLeq(a, b) == a[1] * b[2] <= b[1] * a[2]

\* Python's a / b on floats: raises ZeroDivisionError when b == 0.
PyDiv(a, b) ==
    IF b[1] = 0 THEN ZeroDivisionError ELSE Norm(a[1] * b[2], a[2] * b[1])

\* int(x) of a float: truncation toward zero.
PyInt(q) == IF q[1] >= 0 THEN q[1] \div q[2] ELSE -((-q[1]) \div q[2])

ISqrt(n) == CHOOSE r \in 0..n : r * r <= n /\ (r + 1) * (r + 1) > n

\* math.sqrt; exact whenever numerator and denominator are perfect squares.
PySqrt(q) == <<ISqrt(q[1]), ISqrt(q[2])>>

RECURSIVE RSum(_)
RSum(s) == IF s = <<>> THEN Zero ELSE RAdd(Head(s), RSum(Tail(s)))

RECURSIVE RMax(_)
RMax(s) ==
    IF Len(s) = 1 THEN s[1]
    ELSE LET m == RMax(Tail(s)) IN IF RLess(s[1], m) THEN m ELSE s[1]

RECURSIVE RMin(_)
RMin(s) ==
    IF Len(s) = 1 THEN s[1]
    ELSE LET m == RMin(Tail(s)) IN IF RLess(m, s[1]) THEN m ELSE s[1]

Column(s, c) == [i \in 1..Len(s) |-> s[i][c]]

----------------------------------------------------------------------------
(* The CSV input.                                                          *)

required_columns ==
    <<"frame_id", "player_id", "timestamp_s", "x1", "y1", "x2", "y2",
      "cx", "cy", "w", "h", "confidence">>

AllColumns == {required_columns[i] : i \in 1..Len(required_columns)}

\* One CSV row from its box and its readings; cx, cy, w, h as the detector
\* writes them (box midpoint and box size).
MkRow(f, p, t, x1, y1, x2, y2, conf10) ==
    [frame_id |-> R(f), player_id |-> R(p), timestamp_s |-> R(t),
     x1 |-> R(x1), y1 |-> R(y1), x2 |-> R(x2), y2 |-> R(y2),
     cx |-> Norm(x1 + x2, 2), cy |-> Norm(y1 + y2, 2),
     w |-> R(x2 - x1), h |-> R(y2 - y1), confidence |-> Norm(conf10, 10)]

\* The rows a CSV of the model is made of.  Centres lie on (0,0), (3,0),
\* (0,4), (3,4) and (3/2,2): all mutual distances are rational.
RowPool ==
    { MkRow(0, 1, 0,  2, -1, 4, 1, 8),    \* frame 0, centre (3,0)
      MkRow(1, 1, 0, -1, -1, 1, 1, 9),    \* centre (0,0)
      MkRow(1, 1, 1,  2,  3, 4, 5, 9),    \* same frame and player, centre (3,4)
      MkRow(2, 1, 1,  2,  3, 4, 5, 8),    \* centre (3,4)
      MkRow(2, 1, 0, -1,  3, 1, 5, 9),    \* later frame, earlier time, (0,4)
      MkRow(2, 1, 3, -1, -1, 1, 1, 8),    \* centre (0,0) at t = 3
      MkRow(0, 2, 0,  1,  1, 2, 3, 8),    \* fractional centre (3/2,2)
      MkRow(1, 2, 2, -1, -1, 1, 1, 9),    \* second player, centre (0,0)
      MkRow(1, 1, 0,  2,  3, 4, 5, 8),    \* ties with the second row on
                                          \* frame and time, centre (3,4)
      [MkRow(1, 2, 1, 2, -1, 4, 1, 9) EXCEPT !.h = BadCell] }
                                          \* a cell of column h is no number

RECURSIVE SeqsUpTo(_, _)
SeqsUpTo(S, n) ==
    IF n = 0 THEN {<<>>}
    ELSE LET shorter == SeqsUpTo(S, n - 1)
         IN  shorter \cup {Append(s, x) : s \in shorter, x \in S}

\* Headers offered: complete, or with some columns absent.
Headers ==
    { AllColumns,
      AllColumns \ {"cx", "cy"},
      AllColumns \ {"x1", "confidence"} }

PlayerIds == {1, 2, 3}

NoError == [type |-> "none", columns |-> <<>>, player_id |-> 0, row |-> 0]
NoPath == [player_id |-> 0, total_frames |-> 0, path_data |-> <<>>]
\* The MetricsStore, upload_video and run_inference take no part in a request
\* to the tracking endpoints.
Unused == <<>>
OtherSubsystemsUnused ==
    /\ lock = Unused
    /\ data = Unused
    /\ threads = Unused
    /\ recorded = Unused
    /\ upload = Unused
    /\ inference = Unused

NoExtrema == <<>>
NoHeatmap == [player_id |-> 0, nx |-> 0, ny |-> 0, extrema |-> NoExtrema,
              binned |-> <<>>, smoothed |-> <<>>, heatmap |-> <<>>]

----------------------------------------------------------------------------
(* Sorting: DataFrame.sort_values(by) on several columns and list.sort(key)  *)
(* with a tuple key are both stable and compare the keys lexicographically.  *)

\* Mutant of LexLess: only the first key is compared.
LexLess_first_key_only(a, b, by) ==
    by # <<>> /\ RLess(a[Head(by)], b[Head(by)])

RECURSIVE LexLess(_, _, _)
LexLess(a, b, by) ==
    IF by = <<>> THEN FALSE
    ELSE LET k == Head(by)
         IN  \/ RLess(a[k], b[k])
             \/ a[k] = b[k] /\ LexLess(a, b, Tail(by))

\* Mutant of InsertSorted: r put before the first element that does not sort
\* before it, so that rows equal on every key end up in reverse order.
RECURSIVE InsertSorted_unstable(_, _, _)
InsertSorted_unstable(s, r, by) ==
    IF s = <<>> THEN <<r>>
    ELSE IF ~LexLess(Head(s), r, by) THEN <<r>> \o s
    ELSE <<Head(s)>> \o InsertSorted_unstable(Tail(s), r, by)

\* r put before the first element that sorts strictly after it.
RECURSIVE InsertSorted(_, _, _)
InsertSorted(s, r, by) ==
    IF s = <<>> THEN <<r>>
    ELSE IF LexLess(r, Head(s), by) THEN <<r>> \o s
    ELSE <<Head(s)>> \o InsertSorted(Tail(s), r, by)

RECURSIVE sort_values(_, _)
sort_values(s, by) ==
    IF s = <<>> THEN <<>>
    ELSE InsertSorted(sort_values(SubSeq(s, 1, Len(s) - 1), by), s[Len(s)], by)

\* frame[frame['player_id'] == player_id] and the list comprehension alike:
\* the rows of the player, in the order held.
RowsOf(d, player_id) == SelectSeq(d, LAMBDA r : r.player_id = R(player_id))

----------------------------------------------------------------------------
(* PlayerTrackingData.__init__ and process_data                            *)

missing_columns(cols) == SelectSeq(required_columns, LAMBDA c : c \notin cols)

\* Mutant of process_data: of the rows with the same frame_id and player_id
\* only the first is kept (drop_duplicates).
process_data_dedup(cols, rs) ==
    LET sorted == sort_values(rs, <<"frame_id", "timestamp_s", "player_id">>)
        kept == {i \in 1..Len(sorted) :
                    \A j \in 1..(i - 1) :
                        <<sorted[j].frame_id, sorted[j].player_id>> #
                            <<sorted[i].frame_id, sorted[i].player_id>>}
        nth(k) == CHOOSE i \in kept : Cardinality({j \in kept : j < i}) = k - 1
    IN  [k \in 1..Cardinality(kept) |-> sorted[nth(k)]]

process_data(cols, rs) ==
    LET sorted == sort_values(rs, <<"frame_id", "timestamp_s", "player_id">>)
    IN  IF "cx" \notin cols \/ "cy" \notin cols
        THEN [i \in 1..Len(sorted) |->
                [sorted[i] EXCEPT
                    !.cx = PyDiv(RAdd(sorted[i].x1, sorted[i].x2), R(2)),
                    !.cy = PyDiv(RAdd(sorted[i].y1, sorted[i].y2), R(2))]]
        ELSE sorted

PlayerTrackingData_init ==
    /\ pc = "start"
    /\ variant' = "pandas"
    /\ IF missing_columns(columns) # <<>>
       THEN /\ raised' = [NoError EXCEPT !.type = "ValueError",
                                         !.columns = missing_columns(columns)]
            /\ pc' = "failed"
            /\ df' = <<>>
       ELSE /\ raised' = NoError
            /\ pc' = "constructed"
            /\ df' = process_data(columns, rows)
    /\ UNCHANGED <<columns, rows, call, arg, stats, loop, path,
                 hm, files, response, reqs,
                   lock, data, threads, recorded, upload, inference>>

----------------------------------------------------------------------------
(* SimplePlayerTrackingData.__init__                                       *)

IntColumns == {"frame_id", "player_id", "x1", "y1", "x2", "y2",
               "cx", "cy", "w", "h"}

\* Evaluating the dict display of one row: the columns are read and converted
\* in the order written; the first one that fails raises.
RECURSIVE row_error(_, _, _)
row_error(cols, row, todo) ==
    IF todo = <<>> THEN NoError
    ELSE LET c == Head(todo)
         IN  IF c \notin cols
             THEN [NoError EXCEPT !.type = "KeyError", !.columns = <<c>>]
             ELSE IF (c \in IntColumns /\ ~IsInteger(row[c]))
                     \/ ~IsNumber(row[c])
             THEN [NoError EXCEPT !.type = "ValueError"]
             ELSE row_error(cols, row, Tail(todo))

RECURSIVE first_row_error(_, _)
first_row_error(cols, rs) ==
    IF rs = <<>> THEN NoError
    ELSE LET e == row_error(cols, Head(rs), required_columns)
         IN  IF e # NoError THEN e ELSE first_row_error(cols, Tail(rs))

SimplePlayerTrackingData_init ==
    /\ pc = "start"
    /\ variant' = "simple"
    /\ raised' = first_row_error(columns, rows)
    /\ IF first_row_error(columns, rows) # NoError
       THEN /\ pc' = "failed"
            /\ df' = <<>>
       ELSE /\ pc' = "constructed"
            /\ df' = sort_values(rows, <<"frame_id", "timestamp_s", "player_id">>)
    /\ UNCHANGED <<columns, rows, call, arg, stats, loop, path,
                 hm, files, response, reqs,
                   lock, data, threads, recorded, upload, inference>>

----------------------------------------------------------------------------
(* get_player_stats: the loop over consecutive rows of one player, written *)
(* alike in both classes.                                                  *)

\* Mutants of distance: the squares and the root left out; the sum of the
\* absolute differences taken for the root of the sum of squares.
distance_no_square(prev, curr) ==
    RAdd(RSub(curr.cx, prev.cx), RSub(curr.cy, prev.cy))

distance_manhattan(prev, curr) ==
    LET dx == RSub(curr.cx, prev.cx)
        dy == RSub(curr.cy, prev.cy)
    IN  RAdd(<<Abs(dx[1]), dx[2]>>, <<Abs(dy[1]), dy[2]>>)

\* math.sqrt((curr[0] - prev[0])**2 + (curr[1] - prev[1])**2)
distance(prev, curr) ==
    LET dx == RSub(curr.cx, prev.cx)
        dy == RSub(curr.cy, prev.cy)
    IN  PySqrt(RAdd(RMul(dx, dx), RMul(dy, dy)))

time_diff(prev, curr) == RSub(curr.timestamp_s, prev.timestamp_s)

\* Mutant of takes_speed: if time_diff != 0.
takes_speed_nonzero(dt) == dt # Zero

\* if time_diff > 0: a speed sample is taken
takes_speed(dt) == RLess(Zero, dt)

\* The lists distances and speeds after the iterations i = 1 .. n.
RECURSIVE distances(_, _)
distances(player_data, n) ==
    IF n < 1 THEN <<>>
    ELSE Append(distances(player_data, n - 1),
                distance(player_data[n], player_data[n + 1]))

RECURSIVE speeds(_, _)
speeds(player_data, n) ==
    IF n < 1 THEN <<>>
    ELSE LET before == speeds(player_data, n - 1)
             dt == time_diff(player_data[n], player_data[n + 1])
         IN  IF takes_speed(dt)
             THEN Append(before,
                         PyDiv(distance(player_data[n], player_data[n + 1]), dt))
             ELSE before

total_distance(ds) == IF ds # <<>> THEN RSum(ds) ELSE Zero
\* Mutant of avg_speed: the mean taken without the "if speeds" guard.
avg_speed_unguarded(sp) == PyDiv(RSum(sp), R(Len(sp)))

avg_speed(sp) == IF sp # <<>> THEN PyDiv(RSum(sp), R(Len(sp))) ELSE Zero
max_speed(sp) == IF sp # <<>> THEN RMax(sp) ELSE Zero

\* frame_count / max_frame if max_frame > 0 else 0.0
participation_score(frame_count, max_frame) ==
    IF RLess(Zero, max_frame) THEN PyDiv(R(frame_count), max_frame) ELSE Zero

\* player_data['timestamp_s'].max() - player_data['timestamp_s'].min()
PlayerTrackingData_total_time(player_data) ==
    RSub(RMax(Column(player_data, "timestamp_s")),
         RMin(Column(player_data, "timestamp_s")))

\* player_data[-1]['timestamp_s'] - player_data[0]['timestamp_s']
SimplePlayerTrackingData_total_time(player_data) ==
    RSub(player_data[Len(player_data)].timestamp_s, player_data[1].timestamp_s)

player_stats(player_id, player_data, total_time, max_frame) ==
    LET ds == distances(player_data, Len(player_data) - 1)
        sp == speeds(player_data, Len(player_data) - 1)
        conf == Column(player_data, "confidence")
    IN  [player_id |-> player_id,
         frame_count |-> Len(player_data),
         total_time |-> total_time,
         total_distance_pixels |-> total_distance(ds),
         average_speed_pixels_per_sec |-> avg_speed(sp),
         max_speed_pixels_per_sec |-> max_speed(sp),
         participation_score |-> participation_score(Len(player_data), max_frame),
         intensity_score |-> PyDiv(RSum(conf), R(Len(conf))),
         confidence_avg |-> PyDiv(RSum(conf), R(Len(conf))),
         confidence_min |-> RMin(conf),
         confidence_max |-> RMax(conf)]

player_loop(player_id, player_data) ==
    [player_id |-> player_id,
     distances |-> distances(player_data, Len(player_data) - 1),
     speeds |-> speeds(player_data, Len(player_data) - 1)]

\* A division by zero anywhere in the computation of one entry.
RaisesZeroDivision(st) ==
    \E f \in {"total_distance_pixels", "average_speed_pixels_per_sec",
              "max_speed_pixels_per_sec", "participation_score",
              "intensity_score"} : ~IsNumber(st[f])

\* Series.unique(): the distinct values in order of first appearance.
RECURSIVE unique(_)
unique(s) ==
    IF s = <<>> THEN <<>>
    ELSE LET before == unique(SubSeq(s, 1, Len(s) - 1))
             x == s[Len(s)]
         IN  IF \E i \in 1..Len(before) : before[i] = x THEN before
             ELSE Append(before, x)

\* Iteration over a set of small non-negative ints: CPython keeps them in
\* hash-slot order, which is ascending for values below the table size.
RECURSIVE set_order(_)
set_order(S) ==
    IF S = {} THEN <<>>
    ELSE LET m == CHOOSE x \in S : \A y \in S : x <= y
         IN  <<m>> \o set_order(S \ {m})

PlayerTrackingData_player_data(d, player_id) ==
    sort_values(RowsOf(d, player_id), <<"frame_id", "timestamp_s">>)

PlayerTrackingData_player_ids(d) ==
    LET u == unique(Column(d, "player_id")) IN [i \in 1..Len(u) |-> PyInt(u[i])]

SimplePlayerTrackingData_player_ids(d) ==
    set_order({PyInt(d[i].player_id) : i \in 1..Len(d)})

\* Mutant of PlayerTrackingData_stats: participation over the last frame of
\* the player's own rows instead of the whole frame.
PlayerTrackingData_stats_own_max(d) ==
    LET ids == PlayerTrackingData_player_ids(d)
    IN  [i \in 1..Len(ids) |->
            LET player_data == PlayerTrackingData_player_data(d, ids[i])
            IN  player_stats(ids[i], player_data,
                             PlayerTrackingData_total_time(player_data),
                             RMax(Column(player_data, "frame_id")))]

PlayerTrackingData_stats(d) ==
    LET ids == PlayerTrackingData_player_ids(d)
    IN  [i \in 1..Len(ids) |->
            LET player_data == PlayerTrackingData_player_data(d, ids[i])
            IN  player_stats(ids[i], player_data,
                             PlayerTrackingData_total_time(player_data),
                             RMax(Column(d, "frame_id")))]

SimplePlayerTrackingData_stats(d) ==
    LET ids == SimplePlayerTrackingData_player_ids(d)
    IN  [i \in 1..Len(ids) |->
            LET player_data == RowsOf(d, ids[i])
            IN  player_stats(ids[i], player_data,
                             SimplePlayerTrackingData_total_time(player_data),
                             RMax(Column(d, "frame_id")))]

PlayerTrackingData_loops(d) ==
    LET ids == PlayerTrackingData_player_ids(d)
    IN  [i \in 1..Len(ids) |->
            player_loop(ids[i], PlayerTrackingData_player_data(d, ids[i]))]

SimplePlayerTrackingData_loops(d) ==
    LET ids == SimplePlayerTrackingData_player_ids(d)
    IN  [i \in 1..Len(ids) |-> player_loop(ids[i], RowsOf(d, ids[i]))]

\* The call returns the mapping, or ends in the first exception met.
ReturnStats(computed, loops) ==
    /\ pc' = "done"
    /\ call' = "get_player_stats"
    /\ arg' = 0
    /\ loop' = loops
    /\ IF \E i \in 1..Len(computed) : RaisesZeroDivision(computed[i])
       THEN /\ raised' = [NoError EXCEPT !.type = "ZeroDivisionError"]
            /\ stats' = <<>>
       ELSE /\ raised' = NoError
            /\ stats' = computed
    /\ UNCHANGED <<columns, rows, variant, df, path, hm, files, response, reqs,
                   lock, data, threads, recorded, upload, inference>>

PlayerTrackingData_get_player_stats ==
    /\ pc = "constructed"
    /\ variant = "pandas"
    /\ ReturnStats(PlayerTrackingData_stats(df), PlayerTrackingData_loops(df))

SimplePlayerTrackingData_get_player_stats ==
    /\ pc = "constructed"
    /\ variant = "simple"
    /\ ReturnStats(SimplePlayerTrackingData_stats(df),
                   SimplePlayerTrackingData_loops(df))

----------------------------------------------------------------------------
(* get_player_movement_path                                                *)

\* int(row['frame_id']), float(row['timestamp_s']), int(row['cx']), ...
PlayerTrackingData_path_entry(row) ==
    [frame_id |-> R(PyInt(row.frame_id)),
     timestamp |-> row.timestamp_s,
     x |-> R(PyInt(row.cx)),
     y |-> R(PyInt(row.cy)),
     confidence |-> row.confidence]

SimplePlayerTrackingData_path_entry(row) ==
    [frame_id |-> row.frame_id,
     timestamp |-> row.timestamp_s,
     x |-> row.cx,
     y |-> row.cy,
     confidence |-> row.confidence]

\* Mutant of no_data_found: the emptiness check never fires.
no_data_found_never(player_data) == FALSE

\* if len(player_data) == 0: raise ValueError("No data found for player ...")
no_data_found(player_data) == Len(player_data) = 0

ReturnPath(player_id, path_data) ==
    /\ pc' = "done"
    /\ call' = "get_player_movement_path"
    /\ arg' = player_id
    /\ raised' = NoError
    /\ path' = [player_id |-> player_id,
                total_frames |-> Len(path_data),
                path_data |-> path_data]
    /\ UNCHANGED <<columns, rows, variant, df, stats, loop,
                 hm, files, response, reqs,
                   lock, data, threads, recorded, upload, inference>>

RaiseNoData(player_id) ==
    /\ pc' = "done"
    /\ call' = "get_player_movement_path"
    /\ arg' = player_id
    /\ raised' = [NoError EXCEPT !.type = "ValueError: No data found for player",
                                 !.player_id = player_id]
    /\ UNCHANGED <<columns, rows, variant, df, stats, loop, path,
                 hm, files, response, reqs,
                   lock, data, threads, recorded, upload, inference>>

PlayerTrackingData_get_player_movement_path(player_id) ==
    /\ pc = "constructed"
    /\ variant = "pandas"
    /\ LET player_data == PlayerTrackingData_player_data(df, player_id)
       IN  IF no_data_found(player_data)
           THEN RaiseNoData(player_id)
           ELSE ReturnPath(player_id,
                    [i \in 1..Len(player_data) |->
                        PlayerTrackingData_path_entry(player_data[i])])

SimplePlayerTrackingData_get_player_movement_path(player_id) ==
    /\ pc = "constructed"
    /\ variant = "simple"
    /\ LET player_data == RowsOf(df, player_id)
       IN  IF no_data_found(player_data)
           THEN RaiseNoData(player_id)
           ELSE ReturnPath(player_id,
                    [i \in 1..Len(player_data) |->
                        SimplePlayerTrackingData_path_entry(player_data[i])])

----------------------------------------------------------------------------
(* Heat maps: PlayerTrackingData.generate_heatmap and the endpoint         *)
(* generate_player_heatmap of tracking_analysis_simple.py.                 *)
(*                                                                         *)
(* numpy floats: nan is <<0, 0>>, +inf is <<1, 0>>, -inf is <<-1, 0>>.     *)
(* A grid is a sequence of ny lines of nx cells, heatmap[y_idx + 1] being  *)
(* the line of the code's heatmap[y_idx].                                  *)

MaxBins == 2
MaxUuids == 2

field_length == 165
field_width == 135

nan == <<0, 0>>
inf == <<1, 0>>

Uuids == 1..MaxUuids
GridSizes == 1..MaxBins

\* The rows a CSV given to the heat map is made of.
HeatPool ==
    { MkRow(0, 1, 0, -1, -1, 1, 1, 9),    \* player 1, centre (0,0)
      MkRow(1, 1, 1,  2,  3, 4, 5, 8),    \* player 1, centre (3,4)
      MkRow(2, 1, 2,  1,  1, 2, 3, 8),    \* player 1, centre (3/2,2)
      MkRow(0, 2, 0,  2, -1, 4, 1, 0),    \* player 2, (3,0), confidence 0
      MkRow(1, 2, 1, -1,  3, 1, 5, 9) }   \* player 2, centre (0,4)

\* numpy's a / b on float64: no exception, nan for 0/0 and inf for x/0.
NpDiv(a, b) ==
    IF ~IsNumber(a) \/ ~IsNumber(b) THEN nan
    ELSE IF b[1] = 0
         THEN (IF a[1] = 0 THEN nan ELSE IF a[1] > 0 THEN inf ELSE <<-1, 0>>)
         ELSE Norm(a[1] * b[2], a[2] * b[1])

\* a * length for a positive length: nan and inf stay what they are.
NpScale(a, length) == IF IsNumber(a) THEN RMul(a, R(length)) ELSE a

\* np.linspace(0, stop, num): num edges, the single edge 0 when num = 1.
linspace(stop, num) ==
    [k \in 1..num |-> IF num = 1 THEN Zero ELSE Norm((k - 1) * stop, num - 1)]

\* Mutant of digitize: intervals closed on the right (right=True).
digitize_right_closed(x, bins) ==
    IF x = nan \/ x = inf THEN Len(bins)
    ELSE IF ~IsNumber(x) THEN 0
    ELSE Cardinality({k \in 1..Len(bins) : RLess(bins[k], x)})

\* np.digitize(x, bins) for increasing bins: the number of edges <= x; nan
\* sorts after every edge.
digitize(x, bins) ==
    IF x = nan \/ x = inf THEN Len(bins)
    ELSE IF ~IsNumber(x) THEN 0
    ELSE Cardinality({k \in 1..Len(bins) : RLeq(bins[k], x)})

\* x_min, x_max, y_min, y_max over the whole frame; min() and max() of an
\* empty column are nan.
PlayerTrackingData_extrema(d) ==
    IF d = <<>> THEN <<nan, nan, nan, nan>>
    ELSE <<RMin(Column(d, "cx")), RMax(Column(d, "cx")),
           RMin(Column(d, "cy")), RMax(Column(d, "cy"))>>

\* Mutant of bin_of: the indices are np.digitize's, without the - 1.
bin_of_no_offset(row, extrema, nx, ny) ==
    LET x_scaled == NpScale(NpDiv(RSub(row.cx, extrema[1]),
                                  RSub(extrema[2], extrema[1])), field_length)
        y_scaled == NpScale(NpDiv(RSub(row.cy, extrema[3]),
                                  RSub(extrema[4], extrema[3])), field_width)
    IN  <<digitize(x_scaled, linspace(field_length, nx)),
          digitize(y_scaled, linspace(field_width, ny))>>

\* The bin of one row: <<x_idx, y_idx>>.
bin_of(row, extrema, nx, ny) ==
    LET x_scaled == NpScale(NpDiv(RSub(row.cx, extrema[1]),
                                  RSub(extrema[2], extrema[1])), field_length)
        y_scaled == NpScale(NpDiv(RSub(row.cy, extrema[3]),
                                  RSub(extrema[4], extrema[3])), field_width)
    IN  <<digitize(x_scaled, linspace(field_length, nx)) - 1,
          digitize(y_scaled, linspace(field_width, ny)) - 1>>

\* The grid after the binning loop: each cell the confidences added to it.
\* A row whose bin lies outside the grid adds to no cell.
bin_positions(player_data, extrema, nx, ny) ==
    [y \in 1..ny |->
        [x \in 1..nx |->
            RSum(Column(SelectSeq(player_data,
                     LAMBDA row : bin_of(row, extrema, nx, ny) = <<x - 1, y - 1>>),
                 "confidence"))]]

\* Weights of the Gaussian kernel at offsets -1, 0, 1 for sigma = 0.37
\* (radius int(4.0 * sigma + 0.5) = 1), rounded to fortieths; they sum to 1.
gaussian_kernel == << <<1, 40>>, <<19, 20>>, <<1, 40>> >>

\* Boundary mode 'reflect' (d c b a | a b c d | d c b a) on positions 1..n.
reflect(i, n) ==
    LET m == (i - 1) % (2 * n) IN IF m < n THEN m + 1 ELSE 2 * n - m

\* scipy.ndimage.correlate1d of one line with the kernel.
correlate1d(line) ==
    [i \in 1..Len(line) |->
        RSum([k \in 1..Len(gaussian_kernel) |->
                 RMul(gaussian_kernel[k],
                      line[reflect(i + k - 2, Len(line))])])]

\* gaussian_filter: the kernel along axis 0, then along axis 1.
gaussian_filter(grid) ==
    LET ny == Len(grid)
        nx == Len(grid[1])
        axis0 == [y \in 1..ny |-> [x \in 1..nx |->
                     correlate1d([j \in 1..ny |-> grid[j][x]])[y]]]
    IN  [y \in 1..ny |-> correlate1d(axis0[y])]

\* heatmap.max()
grid_max(grid) ==
    RMax([k \in 1..(Len(grid) * Len(grid[1])) |->
             grid[((k - 1) \div Len(grid[1])) + 1][((k - 1) % Len(grid[1])) + 1]])

\* Mutant of normalize: divides by the sum of the cells.
normalize_by_sum(grid) ==
    LET total == RSum([y \in 1..Len(grid) |-> RSum(grid[y])])
    IN  IF RLess(Zero, total)
        THEN [y \in 1..Len(grid) |->
                 [x \in 1..Len(grid[y]) |-> NpDiv(grid[y][x], total)]]
        ELSE grid

\* max_val = heatmap.max(); if max_val > 0: heatmap = heatmap / max_val
normalize(grid) ==
    LET max_val == grid_max(grid)
    IN  IF RLess(Zero, max_val)
        THEN [y \in 1..Len(grid) |->
                 [x \in 1..Len(grid[y]) |-> NpDiv(grid[y][x], max_val)]]
        ELSE grid

\* Mutant of no_player_data: the emptiness check never fires.
no_player_data_unchecked(player_data) == FALSE

\* if len(player_data) == 0, the first statement after the selection
no_player_data(player_data) == Len(player_data) = 0

\* A file of HEATMAP_DIR, the name made of the player and a uuid4 prefix.
File(player_id, uuid, ext, content) ==
    [player_id |-> player_id, uuid |-> uuid, ext |-> ext, content |-> content]

\* The directory after a file was written: a file of that name is replaced.
write_file(dir, f) ==
    {g \in dir : <<g.player_id, g.uuid, g.ext>> # <<f.player_id, f.uuid, f.ext>>}
        \cup {f}

\* The call ends with an exception; the endpoint turns it into status 500.
HeatmapFails(player_id, nx, ny, type) ==
    /\ pc' = "done"
    /\ call' = "generate_heatmap"
    /\ arg' = player_id
    /\ raised' = [NoError EXCEPT !.type = type, !.player_id = player_id]
    /\ hm' = [NoHeatmap EXCEPT !.player_id = player_id, !.nx = nx, !.ny = ny]
    /\ response' = 500
    /\ UNCHANGED <<columns, rows, variant, df, stats, loop, path, files, reqs,
                   lock, data, threads, recorded, upload, inference>>

\* The locals are bound one after the other, as the code assigns them.
PlayerTrackingData_generate_heatmap(player_id, nx, ny, uuid) ==
    /\ pc = "constructed"
    /\ variant = "pandas"
    /\ LET player_data == PlayerTrackingData_player_data(df, player_id)
       IN  IF no_player_data(player_data)
           THEN HeatmapFails(player_id, nx, ny,
                             "ValueError: No data found for player")
           ELSE \E extrema \in {PlayerTrackingData_extrema(df)} :
                \E binned \in {bin_positions(player_data, extrema, nx, ny)} :
                \E smoothed \in {gaussian_filter(binned)} :
                \E heatmap \in {normalize(smoothed)} :
                    /\ pc' = "done"
                    /\ call' = "generate_heatmap"
                    /\ arg' = player_id
                    /\ raised' = NoError
                    /\ hm' = [player_id |-> player_id, nx |-> nx, ny |-> ny,
                              extrema |-> extrema, binned |-> binned,
                              smoothed |-> smoothed, heatmap |-> heatmap]
                    /\ files' = write_file(files,
                                    File(player_id, uuid, "png", heatmap))
                    /\ response' = 200
                    /\ UNCHANGED <<columns, rows, variant, df, stats, loop,
                                 path, reqs,
                                   lock, data, threads, recorded, upload, inference>>

\* min(x_coords), max(x_coords), ... over the rows of the player only.
SimplePlayerTrackingData_extrema(player_data) ==
    <<RMin(Column(player_data, "cx")), RMax(Column(player_data, "cx")),
      RMin(Column(player_data, "cy")), RMax(Column(player_data, "cy"))>>

\* "player_positions" of the JSON document
position_entry(row) ==
    [frame_id |-> row.frame_id,
     timestamp |-> row.timestamp_s,
     x |-> row.cx,
     y |-> row.cy,
     confidence |-> row.confidence]

\* The endpoint of tracking_analysis_simple.py after the object is built: it
\* bins nothing and writes the positions of the player as a JSON document.
generate_player_heatmap(player_id, nx, ny, uuid) ==
    /\ pc = "constructed"
    /\ variant = "simple"
    /\ LET player_data == RowsOf(df, player_id)
       IN  IF no_player_data(player_data)
           THEN HeatmapFails(player_id, nx, ny,
                             "HTTPException 404: No data found for player")
           ELSE IF player_data = <<>>
           THEN HeatmapFails(player_id, nx, ny,
                             "ValueError: min() arg is an empty sequence")
           ELSE LET extrema == SimplePlayerTrackingData_extrema(player_data)
                    grid_data ==
                        [player_id |-> player_id,
                         coordinate_ranges |-> extrema,
                         player_positions |->
                             [i \in 1..Len(player_data) |->
                                 position_entry(player_data[i])],
                         total_positions |-> Len(player_data)]
                IN  /\ pc' = "done"
                    /\ call' = "generate_heatmap"
                    /\ arg' = player_id
                    /\ raised' = NoError
                    /\ hm' = [NoHeatmap EXCEPT !.player_id = player_id,
                                               !.nx = nx, !.ny = ny,
                                               !.extrema = extrema]
                    /\ files' = write_file(files,
                                    File(player_id, uuid, "json", grid_data))
                    /\ response' = 200
                    /\ UNCHANGED <<columns, rows, variant, df, stats, loop,
                                 path, reqs,
                                   lock, data, threads, recorded, upload, inference>>

\* One heat map request: a CSV, an object built from it, one heat map.
InitHeatmap ==
    /\ columns \in Headers
    /\ rows \in SeqsUpTo(HeatPool, MaxRows)
    /\ variant = "none"
    /\ df = <<>>
    /\ pc = "start"
    /\ call = "none"
    /\ arg = 0
    /\ raised = NoError
    /\ stats = <<>>
    /\ loop = <<>>
    /\ path = NoPath
    /\ hm = NoHeatmap
    /\ files = {}
    /\ response = 0
    /\ reqs = <<>>
    /\ OtherSubsystemsUnused

NextHeatmap ==
    \/ PlayerTrackingData_init
    \/ SimplePlayerTrackingData_init
    \/ \E player_id \in PlayerIds, nx \in GridSizes, ny \in GridSizes,
          uuid \in Uuids :
          PlayerTrackingData_generate_heatmap(player_id, nx, ny, uuid)
    \/ \E player_id \in PlayerIds, nx \in GridSizes, ny \in GridSizes,
          uuid \in Uuids :
          generate_player_heatmap(player_id, nx, ny, uuid)

SpecHeatmap == InitHeatmap /\ [][NextHeatmap]_vars

----------------------------------------------------------------------------
(* The server: several clients call the endpoints of tracking_analysis.py  *)
(* at the same time, each uploading the same CSV.  Every endpoint is an    *)
(* async def whose only await, file.read(), comes first, so the rest of a  *)
(* handler runs without another handler in between: one step per request.  *)
(* All handlers work in the one directory HEATMAP_DIR.                     *)

Clients == {"c1", "c2"}

NoFile == <<0, 0, "none">>
NoRequest == [op |-> "none", player_id |-> 0, status |-> 0,
              filename |-> NoFile, cleaned |-> FALSE]

\* The CSV files the clients of the server upload.
ServerUploads ==
    { << MkRow(0, 1, 0, -1, -1, 1, 1, 9), MkRow(1, 2, 1, -1, 3, 1, 5, 9) >>,
      << MkRow(0, 1, 0, -1, -1, 1, 1, 9), MkRow(1, 1, 1, 2, 3, 4, 5, 8),
         MkRow(0, 2, 0, 2, -1, 4, 1, 0) >> }

\* The grid generate_heatmap draws for a player from the frame d.
heatmap_of(d, player_id, nx, ny) ==
    CHOOSE heatmap \in
        { normalize(smoothed) : smoothed \in
            { gaussian_filter(binned) : binned \in
                { bin_positions(player_data, extrema, nx, ny) :
                    player_data \in
                        {PlayerTrackingData_player_data(d, player_id)},
                    extrema \in {PlayerTrackingData_extrema(d)} } } } : TRUE

\* os.path.exists(os.path.join(HEATMAP_DIR, filename))
exists(dir, filename) ==
    \E f \in dir : <<f.player_id, f.uuid, f.ext>> = filename

\* POST /generate-heatmap.  uuid4 gives a name no file and no client holds.
ServerGenerateHeatmap(c, player_id, uuid) ==
    /\ \A f \in files : f.uuid # uuid
    /\ \A d \in Clients : reqs[d].filename = NoFile \/ reqs[d].filename[2] # uuid
    /\ LET d == process_data(columns, rows)
       IN  IF missing_columns(columns) # <<>>
              \/ no_player_data(PlayerTrackingData_player_data(d, player_id))
           THEN /\ reqs' = [reqs EXCEPT ![c] =
                              [op |-> "generate", player_id |-> player_id,
                               status |-> 500, filename |-> NoFile,
                               cleaned |-> FALSE]]
                /\ UNCHANGED files
           ELSE \E heatmap \in {heatmap_of(d, player_id, MaxBins, MaxBins)} :
                /\ files' = write_file(files,
                                File(player_id, uuid, "png", heatmap))
                /\ reqs' = [reqs EXCEPT ![c] =
                              [op |-> "generate", player_id |-> player_id,
                               status |-> 200,
                               filename |-> <<player_id, uuid, "png">>,
                               cleaned |-> FALSE]]
    /\ UNCHANGED <<columns, rows, variant, df, pc, call, arg, raised, stats,
                 loop, path, hm, response,
                   lock, data, threads, recorded, upload, inference>>

\* GET /heatmap/{filename}, for the file the client was answered with.
ServerGetHeatmap(c) ==
    /\ reqs[c].filename # NoFile
    /\ reqs' = [reqs EXCEPT ![c].op = "get",
                            ![c].status =
                                IF exists(files, reqs[c].filename)
                                THEN 200 ELSE 404]
    /\ UNCHANGED <<columns, rows, variant, df, pc, call, arg, raised, stats,
                 loop, path, hm, files, response,
                   lock, data, threads, recorded, upload, inference>>

\* DELETE /cleanup-heatmaps: every .png of the directory is removed.
ServerCleanupHeatmaps(c) ==
    /\ files' = {f \in files : f.ext # "png"}
    /\ reqs' = [reqs EXCEPT ![c].op = "cleanup", ![c].status = 200,
                            ![c].cleaned = TRUE]
    /\ UNCHANGED <<columns, rows, variant, df, pc, call, arg, raised, stats,
                 loop, path, hm, response,
                   lock, data, threads, recorded, upload, inference>>

\* POST /player-stats: touches neither the directory nor another request.
ServerPlayerStats(c) ==
    /\ reqs' = [reqs EXCEPT ![c].op = "stats",
                            ![c].status =
                                IF missing_columns(columns) # <<>>
                                   \/ \E st \in {PlayerTrackingData_stats(
                                                    process_data(columns, rows))} :
                                          \E i \in 1..Len(st) :
                                              RaisesZeroDivision(st[i])
                                THEN 500 ELSE 200]
    /\ UNCHANGED <<columns, rows, variant, df, pc, call, arg, raised, stats,
                 loop, path, hm, files, response,
                   lock, data, threads, recorded, upload, inference>>

\* POST /player-movement-path
ServerMovementPath(c, player_id) ==
    /\ reqs' = [reqs EXCEPT ![c].op = "path",
                            ![c].status =
                                IF missing_columns(columns) # <<>>
                                   \/ no_data_found(PlayerTrackingData_player_data(
                                          process_data(columns, rows), player_id))
                                THEN 500 ELSE 200]
    /\ UNCHANGED <<columns, rows, variant, df, pc, call, arg, raised, stats,
                 loop, path, hm, files, response,
                   lock, data, threads, recorded, upload, inference>>

InitServer ==
    /\ columns = AllColumns
    /\ rows \in ServerUploads
    /\ variant = "pandas"
    /\ df = <<>>
    /\ pc = "start"
    /\ call = "none"
    /\ arg = 0
    /\ raised = NoError
    /\ stats = <<>>
    /\ loop = <<>>
    /\ path = NoPath
    /\ hm = NoHeatmap
    /\ files = {}
    /\ response = 0
    /\ reqs = [c \in Clients |-> NoRequest]
    /\ OtherSubsystemsUnused

NextServer ==
    \/ \E c \in Clients, player_id \in PlayerIds, uuid \in Uuids :
          ServerGenerateHeatmap(c, player_id, uuid)
    \/ \E c \in Clients : ServerGetHeatmap(c)
    \/ \E c \in Clients : ServerCleanupHeatmaps(c)
    \/ \E c \in Clients : ServerPlayerStats(c)
    \/ \E c \in Clients, player_id \in PlayerIds :
          ServerMovementPath(c, player_id)

SpecServer == InitServer /\ [][NextServer]_vars

----------------------------------------------------------------------------
(* MetricsStore (metrics_store.py): the singleton `metrics` used by         *)
(* several threads.  A thread runs record() or snapshot() one statement at  *)
(* a time; an augmented assignment is a load and a store.  Latencies are    *)
(* whole milliseconds.                                                      *)

ROLLING_WINDOW == 100
MaxRecords == 2

MetricThreads == {"t1", "t2"}
Models == <<"player", "crowd">>
ModelNames == {Models[i] : i \in 1..Len(Models)}

\* The arguments record() is called with: ms and last_output.
RecordArgs == { [ms |-> 1, last_output |-> "a"], [ms |-> 2, last_output |-> "b"] }

NoSnapshot == <<>>
IdleThread == [pc |-> "idle", model |-> "none", ms |-> 0, last_output |-> "None",
               tmp |-> 0, key |-> 0, out |-> <<>>, snap |-> NoSnapshot]

\* sum(s[lo..hi]), by halves.
RECURSIVE SumRange(_, _, _)
SumRange(s, lo, hi) ==
    IF lo > hi THEN 0
    ELSE IF lo = hi THEN s[lo]
    ELSE SumRange(s, lo, (lo + hi) \div 2) + SumRange(s, (lo + hi) \div 2 + 1, hi)

SumSeq(s) == SumRange(s, 1, Len(s))

\* deque(maxlen=ROLLING_WINDOW).append(x): a full deque drops its oldest.
deque_append(d, x) ==
    IF Len(d) = ROLLING_WINDOW THEN Append(Tail(d), x) ELSE Append(d, x)

\* The entry of a model after the record() calls h, oldest first.
entry_after(h) ==
    [calls |-> Len(h),
     total_ms |-> SumSeq([k \in 1..Len(h) |-> h[k].ms]),
     latencies |->
        IF Len(h) <= ROLLING_WINDOW THEN [k \in 1..Len(h) |-> h[k].ms]
        ELSE [k \in 1..ROLLING_WINDOW |-> h[Len(h) - ROLLING_WINDOW + k].ms],
     last_output |-> IF Len(h) = 0 THEN "None" ELSE h[Len(h)].last_output,
     last_request |-> IF Len(h) = 0 THEN "None" ELSE "set"]

\* Calls the store has served before the threads of the model start: k-th
\* call with 1 ms and output "a" for even k, 2 ms and "b" for odd k.
served(n) ==
    [k \in 1..n |-> IF k % 2 = 0 THEN [ms |-> 1, last_output |-> "a"]
                                ELSE [ms |-> 2, last_output |-> "b"]]

ServedAtStart == served(ROLLING_WINDOW - 1)

\* round(avg, 2) of a quotient n / d: to the nearest hundredth, ties to even.
round2(n, d) ==
    LET whole == (n * 100) \div d
        rest == (n * 100) % d
    IN  IF 2 * rest > d \/ (2 * rest = d /\ whole % 2 = 1)
        THEN Norm(whole + 1, 100) ELSE Norm(whole, 100)

\* The value snapshot() puts into out[k] for the entry v.
snapshot_entry(v) ==
    [calls |-> v.calls,
     avg_latency_ms |->
        IF Len(v.latencies) # 0 THEN round2(SumSeq(v.latencies), Len(v.latencies))
        ELSE IF v.calls # 0 THEN round2(v.total_ms, v.calls)
        ELSE Zero,
     last_output |-> v.last_output,
     last_request |-> v.last_request]

\* Mutant of lock_available: the lock never makes a thread wait.
lock_available_always(t) == TRUE

\* with self._lock: an RLock is free or held by the thread itself.
lock_available(t) == lock \in {"none", t}

MetricsUnchanged ==
    UNCHANGED <<columns, rows, variant, df, pc, call, arg, raised, stats, loop,
                path, hm, files, response, reqs, upload, inference>>

\* The record() calls the threads have made, returned or not.
RecordsStarted ==
    SumSeq([i \in 1..Len(Models) |-> Len(recorded[Models[i]])])
    - Len(ServedAtStart)
    + Cardinality({t \in MetricThreads : threads[t].model # "none"})

\* metrics.record(model, ms, last_output) is called.
RecordCall(t, model, a) ==
    /\ threads[t].pc = "idle"
    /\ RecordsStarted < MaxRecords
    /\ threads' = [threads EXCEPT ![t].pc = "record:20", ![t].model = model,
                                  ![t].ms = a.ms,
                                  ![t].last_output = a.last_output]
    /\ UNCHANGED <<lock, data, recorded>>
    /\ MetricsUnchanged

\* with self._lock:
RecordAcquire(t) ==
    /\ threads[t].pc = "record:20"
    /\ lock_available(t)
    /\ lock' = t
    /\ threads' = [threads EXCEPT ![t].pc = "record:22"]
    /\ UNCHANGED <<data, recorded>>
    /\ MetricsUnchanged

\* m["calls"] += 1, the load
RecordCallsLoad(t) ==
    /\ threads[t].pc = "record:22"
    /\ threads' = [threads EXCEPT ![t].pc = "record:22 store",
                                  ![t].tmp = data[threads[t].model].calls]
    /\ UNCHANGED <<lock, data, recorded>>
    /\ MetricsUnchanged

\* m["calls"] += 1, the store
RecordCallsStore(t) ==
    /\ threads[t].pc = "record:22 store"
    /\ data' = [data EXCEPT ![threads[t].model].calls = threads[t].tmp + 1]
    /\ threads' = [threads EXCEPT ![t].pc = "record:23"]
    /\ UNCHANGED <<lock, recorded>>
    /\ MetricsUnchanged

\* m["total_ms"] += ms, the load
RecordTotalLoad(t) ==
    /\ threads[t].pc = "record:23"
    /\ threads' = [threads EXCEPT ![t].pc = "record:23 store",
                                  ![t].tmp = data[threads[t].model].total_ms]
    /\ UNCHANGED <<lock, data, recorded>>
    /\ MetricsUnchanged

\* m["total_ms"] += ms, the store
RecordTotalStore(t) ==
    /\ threads[t].pc = "record:23 store"
    /\ data' = [data EXCEPT ![threads[t].model].total_ms =
                                threads[t].tmp + threads[t].ms]
    /\ threads' = [threads EXCEPT ![t].pc = "record:24"]
    /\ UNCHANGED <<lock, recorded>>
    /\ MetricsUnchanged

\* m["last_output"] = last_output
RecordLastOutput(t) ==
    /\ threads[t].pc = "record:24"
    /\ data' = [data EXCEPT ![threads[t].model].last_output =
                                threads[t].last_output]
    /\ threads' = [threads EXCEPT ![t].pc = "record:25"]
    /\ UNCHANGED <<lock, recorded>>
    /\ MetricsUnchanged

\* m["latencies"].append(ms)
RecordAppend(t) ==
    /\ threads[t].pc = "record:25"
    /\ data' = [data EXCEPT ![threads[t].model].latencies =
                                deque_append(@, threads[t].ms)]
    /\ threads' = [threads EXCEPT ![t].pc = "record:26"]
    /\ UNCHANGED <<lock, recorded>>
    /\ MetricsUnchanged

\* m["last_request"] = datetime.now(timezone.utc)
RecordLastRequest(t) ==
    /\ threads[t].pc = "record:26"
    /\ data' = [data EXCEPT ![threads[t].model].last_request = "set"]
    /\ threads' = [threads EXCEPT ![t].pc = "record:return"]
    /\ UNCHANGED <<lock, recorded>>
    /\ MetricsUnchanged

\* The with block is left, the lock released, record() returns.
RecordReturn(t) ==
    /\ threads[t].pc = "record:return"
    /\ lock' = "none"
    /\ recorded' = [recorded EXCEPT ![threads[t].model] =
                       Append(@, [ms |-> threads[t].ms,
                                  last_output |-> threads[t].last_output])]
    /\ threads' = [threads EXCEPT ![t].pc = "idle", ![t].model = "none",
                                  ![t].ms = 0, ![t].last_output = "None",
                                  ![t].tmp = 0]
    /\ UNCHANGED data
    /\ MetricsUnchanged

\* metrics.snapshot() is called.
SnapshotCall(t) ==
    /\ threads[t].pc = "idle"
    /\ threads' = [threads EXCEPT ![t].pc = "snapshot:29"]
    /\ UNCHANGED <<lock, data, recorded>>
    /\ MetricsUnchanged

\* with self._lock: out = {}
SnapshotAcquire(t) ==
    /\ threads[t].pc = "snapshot:29"
    /\ lock_available(t)
    /\ lock' = t
    /\ threads' = [threads EXCEPT ![t].pc = "snapshot:31", ![t].key = 1,
                                  ![t].out = <<>>]
    /\ UNCHANGED <<data, recorded>>
    /\ MetricsUnchanged

\* One turn of for k, v in self._data.items(), in insertion order.
SnapshotItem(t) ==
    /\ threads[t].pc = "snapshot:31"
    /\ threads[t].key <= Len(Models)
    /\ threads' = [threads EXCEPT
                      ![t].out = Append(@, snapshot_entry(
                                               data[Models[threads[t].key]])),
                      ![t].key = @ + 1]
    /\ UNCHANGED <<lock, data, recorded>>
    /\ MetricsUnchanged

\* return out, the lock released.
SnapshotReturn(t) ==
    /\ threads[t].pc = "snapshot:31"
    /\ threads[t].key > Len(Models)
    /\ lock' = "none"
    /\ threads' = [threads EXCEPT ![t].pc = "idle", ![t].snap = threads[t].out,
                                  ![t].out = <<>>, ![t].key = 0]
    /\ UNCHANGED <<data, recorded>>
    /\ MetricsUnchanged

\* The first model has served calls and its window is about to fill, the
\* second has served none.
InitMetrics ==
    /\ columns = AllColumns
    /\ rows = <<>>
    /\ variant = "none"
    /\ df = <<>>
    /\ pc = "start"
    /\ call = "none"
    /\ arg = 0
    /\ raised = NoError
    /\ stats = <<>>
    /\ loop = <<>>
    /\ path = NoPath
    /\ hm = NoHeatmap
    /\ files = {}
    /\ response = 0
    /\ reqs = <<>>
    /\ upload = Unused
    /\ inference = Unused
    /\ lock = "none"
    /\ recorded = [m \in ModelNames |->
                      IF m = Models[1] THEN ServedAtStart ELSE <<>>]
    /\ data = [m \in ModelNames |-> entry_after(recorded[m])]
    /\ threads = [t \in MetricThreads |-> IdleThread]

NextMetrics ==
    \/ \E t \in MetricThreads, model \in ModelNames, a \in RecordArgs :
          RecordCall(t, model, a)
    \/ \E t \in MetricThreads : RecordAcquire(t)
    \/ \E t \in MetricThreads : RecordCallsLoad(t)
    \/ \E t \in MetricThreads : RecordCallsStore(t)
    \/ \E t \in MetricThreads : RecordTotalLoad(t)
    \/ \E t \in MetricThreads : RecordTotalStore(t)
    \/ \E t \in MetricThreads : RecordLastOutput(t)
    \/ \E t \in MetricThreads : RecordAppend(t)
    \/ \E t \in MetricThreads : RecordLastRequest(t)
    \/ \E t \in MetricThreads : RecordReturn(t)
    \/ \E t \in MetricThreads : SnapshotCall(t)
    \/ \E t \in MetricThreads : SnapshotAcquire(t)
    \/ \E t \in MetricThreads : SnapshotItem(t)
    \/ \E t \in MetricThreads : SnapshotReturn(t)

SpecMetrics == InitMetrics /\ [][NextMetrics]_vars

----------------------------------------------------------------------------
(* upload_video (upload.py): one request, its body arriving in chunks.  The  *)
(* handler yields at every `await file.read`; each request has a             *)
(* destination file of its own, named by a fresh uuid.                       *)

MaxUploadMb == 2
MaxChunks == 4

CHUNK_SIZE == 1024 * 1024

\* max_bytes = MAX_UPLOAD_MB * 1024 * 1024
max_bytes(mb) == mb * 1024 * 1024

\* len(chunk) for a non-empty result of file.read(CHUNK_SIZE)
ChunkSizes == {1, CHUNK_SIZE - 1, CHUNK_SIZE}

NotSaved == -1
NoStatus == 0

\* Mutant of too_large: the size guard is gone.
too_large_never(size, limit) == FALSE

\* if written > max_bytes
too_large(size, limit) == size > limit

UploadUnchanged ==
    UNCHANGED <<columns, rows, variant, df, pc, call, arg, raised, stats, loop,
                path, hm, files, response, reqs, lock, data, threads, recorded,
                inference>>

\* Lines 29-52: the checks of the file name and type, then dest_path.open.
UploadOpen(has_filename, mime_ok, ext_ok) ==
    /\ upload.pc = "start"
    /\ IF ~has_filename
       THEN upload' = [upload EXCEPT !.pc = "done", !.status = 422]
       ELSE IF ~(mime_ok \/ ext_ok)
       THEN upload' = [upload EXCEPT !.pc = "done", !.status = 400]
       ELSE upload' = [upload EXCEPT !.pc = "read", !.exists = TRUE,
                                     !.disk = 0, !.written = 0]
    /\ UploadUnchanged

\* Lines 54-62: a non-empty chunk of n bytes is read, counted, and written
\* unless the count has passed the limit.
UploadChunk(n) ==
    /\ upload.pc = "read"
    /\ upload.chunks < MaxChunks
    /\ IF too_large(upload.written + n, max_bytes(upload.max_mb))
       THEN upload' = [upload EXCEPT !.pc = "done", !.written = @ + n,
                                     !.chunks = @ + 1, !.exists = FALSE,
                                     !.disk = 0, !.status = 413,
                                     !.closed = TRUE]
       ELSE upload' = [upload EXCEPT !.written = @ + n, !.chunks = @ + 1,
                                     !.disk = @ + n,
                                     !.peak = IF upload.disk + n > @
                                              THEN upload.disk + n ELSE @]
    /\ UploadUnchanged

\* Lines 54, 65-69: file.read raises; the file is removed, the answer is 500.
UploadReadFails ==
    /\ upload.pc = "read"
    /\ upload' = [upload EXCEPT !.pc = "done", !.exists = FALSE, !.disk = 0,
                                !.status = 500, !.closed = TRUE]
    /\ UploadUnchanged

\* Lines 57-62, 65-69: out.write raises after k of the n bytes of a chunk
\* within the limit; the file is removed, the answer is 500.
UploadWriteFails(n, k) ==
    /\ upload.pc = "read"
    /\ upload.chunks < MaxChunks
    /\ ~too_large(upload.written + n, max_bytes(upload.max_mb))
    /\ upload' = [upload EXCEPT !.pc = "done", !.written = @ + n,
                                !.chunks = @ + 1, !.exists = FALSE,
                                !.disk = 0,
                                !.peak = IF upload.disk + k > @
                                         THEN upload.disk + k ELSE @,
                                !.status = 500, !.closed = TRUE]
    /\ UploadUnchanged

\* Lines 54-56, 68-69: the empty chunk ends the loop, the files are closed.
UploadEof ==
    /\ upload.pc = "read"
    /\ upload' = [upload EXCEPT !.pc = "save", !.closed = TRUE]
    /\ UploadUnchanged

\* Lines 72-88: save_upload(size_bytes=written) and the response.
UploadSave ==
    /\ upload.pc = "save"
    /\ upload' = [upload EXCEPT !.pc = "done", !.saved = upload.written,
                                !.status = 200]
    /\ UploadUnchanged

\* Line 75: save_upload raises (the database is away); nothing catches it.
UploadSaveFails ==
    /\ upload.pc = "save"
    /\ upload' = [upload EXCEPT !.pc = "done", !.status = 500]
    /\ UploadUnchanged

\* A request arrives; MAX_UPLOAD_MB was read from the environment.
InitUpload ==
    /\ columns = AllColumns
    /\ rows = <<>>
    /\ variant = "none"
    /\ df = <<>>
    /\ pc = "start"
    /\ call = "none"
    /\ arg = 0
    /\ raised = NoError
    /\ stats = <<>>
    /\ loop = <<>>
    /\ path = NoPath
    /\ hm = NoHeatmap
    /\ files = {}
    /\ response = 0
    /\ reqs = <<>>
    /\ lock = Unused
    /\ data = Unused
    /\ threads = Unused
    /\ recorded = Unused
    /\ inference = Unused
    /\ \E mb \in 0..MaxUploadMb :
          upload = [pc |-> "start", max_mb |-> mb, written |-> 0, chunks |-> 0,
                    exists |-> FALSE, disk |-> 0, peak |-> 0,
                    closed |-> FALSE, saved |-> NotSaved, status |-> NoStatus]

NextUpload ==
    \/ \E has_filename \in BOOLEAN, mime_ok \in BOOLEAN, ext_ok \in BOOLEAN :
          UploadOpen(has_filename, mime_ok, ext_ok)
    \/ \E n \in ChunkSizes : UploadChunk(n)
    \/ UploadReadFails
    \/ \E n \in ChunkSizes, k \in {0, 1} : UploadWriteFails(n, k)
    \/ UploadEof
    \/ UploadSave
    \/ UploadSaveFails

SpecUpload == InitUpload /\ [][NextUpload]_vars

----------------------------------------------------------------------------
(* run_inference (inference.py): one request.  The handler runs up to its   *)
(* `await client.post` in one piece and goes on when the model service has  *)
(* answered or the connection has failed.                                   *)

\* req.id: the id of a stored upload, a well-formed id of no upload, or a
\* string that is no UUID.
UploadIds == {"known", "unknown", "malformed"}
Tasks == {"player", "crowd"}
SvcModes == {"path", "upload"}

\* What comes back from client.post: a status code with a body that is or is
\* not the JSON the summary expects, or an exception of httpx.
SvcAnswers ==
    { [code |-> 200, json |-> TRUE], [code |-> 200, json |-> FALSE],
      [code |-> 404, json |-> TRUE], [code |-> 500, json |-> FALSE],
      [code |-> 503, json |-> FALSE], [code |-> 0, json |-> FALSE] }
ConnectError == 0
NoAnswer == [code |-> -1, json |-> FALSE]

\* storage.get_upload: uuid.UUID(upload_id) unless the database is SQLite;
\* its ValueError is not NoResultFound and leaves get_upload.
get_upload(upload_id, is_sqlite) ==
    IF ~is_sqlite /\ upload_id = "malformed" THEN "ValueError"
    ELSE IF upload_id = "known" THEN "rec"
    ELSE "None"

InferenceUnchanged ==
    UNCHANGED <<columns, rows, variant, df, pc, call, arg, raised, stats, loop,
                path, hm, files, response, reqs, lock, data, threads, recorded,
                upload>>

\* Lines 128-135: the look-up and the check of the file.  An exception of
\* get_upload is outside the try block: the framework answers 500.
InferenceLookup ==
    /\ inference.pc = "start"
    /\ \E rec \in {get_upload(inference.id, inference.is_sqlite)} :
          IF rec = "ValueError"
          THEN inference' = [inference EXCEPT !.pc = "done", !.status = 500]
          ELSE IF rec = "None"
          THEN inference' = [inference EXCEPT !.pc = "done", !.status = 404]
          ELSE IF ~inference.file_exists
          THEN inference' = [inference EXCEPT !.pc = "done", !.status = 410]
          ELSE inference' = [inference EXCEPT !.pc = "post"]
    /\ InferenceUnchanged

\* Lines 139-170: the request to the service of the task is sent.
InferencePost ==
    /\ inference.pc = "post"
    /\ inference' = [inference EXCEPT !.pc = "await",
                                      !.contacted = inference.task]
    /\ InferenceUnchanged

\* Lines 172-193: the answer of the service, or the failure of the call.
InferenceAnswer(a) ==
    /\ inference.pc = "await"
    /\ IF a.code = ConnectError
       THEN inference' = [inference EXCEPT !.pc = "done", !.svc = a,
                                           !.status = 500]
       ELSE IF a.code # 200
       THEN inference' = [inference EXCEPT !.pc = "done", !.svc = a,
                                           !.status = 502]
       ELSE IF ~a.json
       THEN inference' = [inference EXCEPT !.pc = "done", !.svc = a,
                                           !.status = 500]
       ELSE inference' = [inference EXCEPT !.pc = "done", !.svc = a,
                                           !.status = 200, !.result = "ok"]
    /\ InferenceUnchanged

\* A request arrives.
InitInference ==
    /\ columns = AllColumns
    /\ rows = <<>>
    /\ variant = "none"
    /\ df = <<>>
    /\ pc = "start"
    /\ call = "none"
    /\ arg = 0
    /\ raised = NoError
    /\ stats = <<>>
    /\ loop = <<>>
    /\ path = NoPath
    /\ hm = NoHeatmap
    /\ files = {}
    /\ response = 0
    /\ reqs = <<>>
    /\ lock = Unused
    /\ data = Unused
    /\ threads = Unused
    /\ recorded = Unused
    /\ upload = Unused
    /\ \E id \in UploadIds, is_sqlite \in BOOLEAN, file_exists \in BOOLEAN,
          task \in Tasks, mode \in SvcModes :
          inference = [pc |-> "start", id |-> id, is_sqlite |-> is_sqlite,
                       file_exists |-> file_exists, task |-> task,
                       mode |-> mode, contacted |-> "none", svc |-> NoAnswer,
                       status |-> NoStatus, result |-> "none"]

NextInference ==
    \/ InferenceLookup
    \/ InferencePost
    \/ \E a \in SvcAnswers : InferenceAnswer(a)

SpecInference == InitInference /\ [][NextInference]_vars

----------------------------------------------------------------------------
(* One request: a CSV, an object built from it, one method call.           *)

Init ==
    /\ columns \in Headers
    /\ rows \in SeqsUpTo(RowPool, MaxRows)
    /\ variant = "none"
    /\ df = <<>>
    /\ pc = "start"
    /\ call = "none"
    /\ arg = 0
    /\ raised = NoError
    /\ stats = <<>>
    /\ loop = <<>>
    /\ path = NoPath
    /\ hm = NoHeatmap
    /\ files = {}
    /\ response = 0
    /\ reqs = <<>>
    /\ OtherSubsystemsUnused

Next ==
    \/ PlayerTrackingData_init
    \/ SimplePlayerTrackingData_init
    \/ PlayerTrackingData_get_player_stats
    \/ SimplePlayerTrackingData_get_player_stats
    \/ \E player_id \in PlayerIds :
          PlayerTrackingData_get_player_movement_path(player_id)
    \/ \E player_id \in PlayerIds :
          SimplePlayerTrackingData_get_player_movement_path(player_id)

Spec == Init /\ [][Next]_vars

----------------------------------------------------------------------------
(* What the properties are stated against: the uploaded rows themselves,   *)
(* not the object built from them.                                         *)

StatsReturned == pc = "done" /\ call = "get_player_stats" /\ raised = NoError
StatsCalled == pc = "done" /\ call = "get_player_stats"
PathCalled == pc = "done" /\ call = "get_player_movement_path"

Entities == {rows[i].player_id[1] : i \in 1..Len(rows)}

IndicesOf(e) == {i \in 1..Len(rows) : rows[i].player_id[1] = e}

\* Row i comes before row j in (frame_id, timestamp_s) order, input order
\* deciding between rows equal on both.
ComesBefore(i, j) ==
    \/ RLess(rows[i].frame_id, rows[j].frame_id)
    \/ /\ rows[i].frame_id = rows[j].frame_id
       /\ RLess(rows[i].timestamp_s, rows[j].timestamp_s)
    \/ /\ rows[i].frame_id = rows[j].frame_id
       /\ rows[i].timestamp_s = rows[j].timestamp_s
       /\ i < j

\* The trajectory of entity e: its rows by rank.
Trajectory(e) ==
    LET I == IndicesOf(e)
        rank(i) == Cardinality({j \in I : ComesBefore(j, i)}) + 1
    IN  [k \in 1..Cardinality(I) |-> rows[CHOOSE i \in I : rank(i) = k]]

DatasetMaxFrame ==
    CHOOSE m \in {rows[i].frame_id[1] : i \in 1..Len(rows)} :
        \A i \in 1..Len(rows) : rows[i].frame_id[1] <= m

\* Non-negative frame_ids, each (frame_id, entity_id) pair once.
ValidDataset ==
    /\ \A i \in 1..Len(rows) : rows[i].frame_id[1] >= 0
    /\ \A i, j \in 1..Len(rows) :
          (/\ rows[i].frame_id = rows[j].frame_id
           /\ rows[i].player_id = rows[j].player_id) => i = j

\* One entry of the returned mapping per entity of the dataset.
OneEntryPerEntity ==
    /\ {stats[i].player_id : i \in 1..Len(stats)} = Entities
    /\ Len(stats) = Cardinality(Entities)
    /\ {loop[i].player_id : i \in 1..Len(loop)} = Entities
    /\ Len(loop) = Cardinality(Entities)

StatsFor(e) == stats[CHOOSE i \in 1..Len(stats) : stats[i].player_id = e]
LoopFor(e) == loop[CHOOSE i \in 1..Len(loop) : loop[i].player_id = e]

\* q is the exact quotient n / d of two integers, d > 0.
IsQuotient(q, n, d) == IsNumber(q) /\ q[1] * d = n * q[2]

----------------------------------------------------------------------------
(* C1: for every valid dataset (non-negative frame_ids, unique             *)
(* (frame_id, entity_id) pairs) and every entity, the participation_score  *)
(* returned by get_player_stats lies in [0, 1].                            *)
C1_ParticipationInUnitInterval ==
    (StatsReturned /\ ValidDataset) =>
        \A i \in 1..Len(stats) :
            /\ RLeq(Zero, stats[i].participation_score)
            /\ RLeq(stats[i].participation_score, R(1))

(* C2: every entity's participation_score is its frame_count divided by    *)
(* the maximum frame_id of the whole dataset, and is 0.0, with no division *)
(* performed, when that maximum is 0.                                      *)
C2_ParticipationIsCountOverDatasetMax ==
    StatsCalled =>
        /\ raised = NoError
        /\ OneEntryPerEntity
        /\ \A e \in Entities :
              IF DatasetMaxFrame = 0
              THEN StatsFor(e).participation_score = Zero
              ELSE IsQuotient(StatsFor(e).participation_score,
                              Cardinality(IndicesOf(e)), DatasetMaxFrame)

\* An entity whose own last frame is below the dataset's last frame.
C2_Witness ==
    /\ StatsReturned
    /\ rows # <<>>
    /\ DatasetMaxFrame > 0
    /\ \E e \in Entities :
          /\ \A i \in IndicesOf(e) : rows[i].frame_id[1] < DatasetMaxFrame
          /\ StatsFor(e).participation_score # Zero

(* C3: every trajectory has total_distance >= 0, and total_distance = 0    *)
(* when it has exactly one record.                                         *)
C3_TotalDistanceNonNegative ==
    StatsCalled =>
        /\ raised = NoError
        /\ OneEntryPerEntity
        /\ \A e \in Entities :
              /\ IsNumber(StatsFor(e).total_distance_pixels)
              /\ RLeq(Zero, StatsFor(e).total_distance_pixels)
              /\ Cardinality(IndicesOf(e)) = 1 =>
                    StatsFor(e).total_distance_pixels = Zero

\* One entity with a single record beside one that moved.
C3_Witness ==
    /\ StatsReturned
    /\ \E e \in Entities : Cardinality(IndicesOf(e)) = 1
    /\ \E e \in Entities : RLess(Zero, StatsFor(e).total_distance_pixels)

\* d is the Euclidean distance between the centres of rows a and b.
IsEuclidean(d, a, b) ==
    LET dx == RSub(b.cx, a.cx)
        dy == RSub(b.cy, a.cy)
    IN  /\ IsNumber(d)
        /\ RLeq(Zero, d)
        /\ RMul(d, d) = RAdd(RMul(dx, dx), RMul(dy, dy))

ScenarioA ==
    << MkRow(1, 1, 0, -1, -1, 1, 1, 9), MkRow(2, 1, 1, 2, 3, 4, 5, 8) >>

(* C4: every entity's total_distance is the sum of the Euclidean distances *)
(* between the (cx, cy) of consecutive records of its trajectory in        *)
(* (frame_id, timestamp_s) order; records at (0,0) and (3,4) one second    *)
(* apart give total_distance 5, average_speed 5 and max_speed 5.           *)
C4_TotalDistanceIsSumOfSteps ==
    StatsCalled =>
        /\ raised = NoError
        /\ OneEntryPerEntity
        /\ \A e \in Entities :
              LET t == Trajectory(e)
                  ds == LoopFor(e).distances
              IN  /\ Len(ds) = Len(t) - 1
                  /\ \A k \in 1..Len(ds) : IsEuclidean(ds[k], t[k], t[k + 1])
                  /\ StatsFor(e).total_distance_pixels = RSum(ds)
        /\ rows = ScenarioA =>
              /\ StatsFor(1).total_distance_pixels = R(5)
              /\ StatsFor(1).average_speed_pixels_per_sec = R(5)
              /\ StatsFor(1).max_speed_pixels_per_sec = R(5)

C4_Witness ==
    /\ StatsReturned
    /\ rows = ScenarioA
    /\ StatsFor(1).total_distance_pixels = R(5)

\* The consecutive pairs of a trajectory with strictly positive elapsed time.
PositiveSteps(t) ==
    {k \in 1..(Len(t) - 1) : RLess(t[k].timestamp_s, t[k + 1].timestamp_s)}

(* C5: a pair of consecutive records contributes a speed sample            *)
(* (distance / dt) if and only if dt > 0, while its distance is added to   *)
(* total_distance whatever dt is; the number of speed samples is the       *)
(* number of consecutive pairs with strictly positive elapsed time.        *)
C5_SpeedSampleIffPositiveDt ==
    StatsCalled =>
        /\ raised = NoError
        /\ OneEntryPerEntity
        /\ \A e \in Entities :
              LET t == Trajectory(e)
                  ds == LoopFor(e).distances
                  sp == LoopFor(e).speeds
                  P == PositiveSteps(t)
                  nth(k) == Cardinality({j \in P : j <= k})
              IN  /\ Len(ds) = Len(t) - 1
                  /\ Len(sp) = Cardinality(P)
                  /\ StatsFor(e).total_distance_pixels = RSum(ds)
                  /\ \A k \in P :
                        RMul(sp[nth(k)],
                             RSub(t[k + 1].timestamp_s, t[k].timestamp_s))
                            = ds[k]

\* A step with no elapsed time that moved, beside a step that gave a sample.
C5_Witness ==
    /\ StatsReturned
    /\ \E e \in Entities :
          LET t == Trajectory(e)
          IN  /\ Len(LoopFor(e).speeds) = 1
              /\ \E k \in 1..(Len(t) - 1) :
                    /\ t[k].timestamp_s = t[k + 1].timestamp_s
                    /\ RLess(Zero, LoopFor(e).distances[k])
              /\ RLess(Zero, StatsFor(e).total_distance_pixels)

(* C6: when a trajectory yields no speed sample (one record, or every      *)
(* consecutive dt <= 0), average_speed and max_speed are both 0.0 and no   *)
(* division by zero occurs; otherwise average_speed is the arithmetic mean *)
(* and max_speed the maximum of the samples.                               *)
C6_SpeedsOfNoSampleAreZero ==
    StatsCalled =>
        /\ raised = NoError
        /\ OneEntryPerEntity
        /\ \A e \in Entities :
              LET sp == LoopFor(e).speeds
                  avg == StatsFor(e).average_speed_pixels_per_sec
                  mx == StatsFor(e).max_speed_pixels_per_sec
              IN  IF PositiveSteps(Trajectory(e)) = {}
                  THEN sp = <<>> /\ avg = Zero /\ mx = Zero
                  ELSE /\ sp # <<>>
                       /\ IsNumber(avg)
                       /\ RMul(avg, R(Len(sp))) = RSum(sp)
                       /\ \E j \in 1..Len(sp) : sp[j] = mx
                       /\ \A j \in 1..Len(sp) : RLeq(sp[j], mx)

\* Several records, none later in time than the one before it.
C6_Witness ==
    /\ StatsReturned
    /\ \E e \in Entities :
          /\ Len(Trajectory(e)) >= 2
          /\ PositiveSteps(Trajectory(e)) = {}
          /\ StatsFor(e).average_speed_pixels_per_sec = Zero
          /\ RLess(Zero, StatsFor(e).total_distance_pixels)

(* C7: every entity's total_time is the timestamp of the last record minus *)
(* the timestamp of the first record of its trajectory in                  *)
(* (frame_id, timestamp_s) order.                                          *)
C7_TotalTimeIsLastMinusFirst ==
    StatsReturned =>
        \A e \in Entities :
            LET t == Trajectory(e)
            IN  StatsFor(e).total_time
                    = RSub(t[Len(t)].timestamp_s, t[1].timestamp_s)

(* C8: requesting the movement path of an entity_id with no record in the  *)
(* dataset fails with a not-found error and returns nothing: no path       *)
(* entries, no player summary.                                             *)
C8_AbsentEntityIsNotFound ==
    (PathCalled /\ IndicesOf(arg) = {}) =>
        /\ raised.type = "ValueError: No data found for player"
        /\ raised.player_id = arg
        /\ path = NoPath

C8_Witness ==
    /\ PathCalled
    /\ rows # <<>>
    /\ IndicesOf(arg) = {}
    /\ raised.type # "none"

(* C9: movement_path is a pure projection of the trajectory: one entry per *)
(* record, in (frame_id, timestamp_s) order, entry i carrying the          *)
(* unmodified frame_id, timestamp_s, cx (as x), cy (as y) and confidence   *)
(* of record i, nothing rounded, truncated or recomputed.                  *)
C9_MovementPathIsProjection ==
    (PathCalled /\ raised = NoError) =>
        LET t == Trajectory(arg)
        IN  /\ path.player_id = arg
            /\ path.total_frames = Len(t)
            /\ Len(path.path_data) = Len(t)
            /\ \A k \in 1..Len(t) :
                  /\ path.path_data[k].frame_id = t[k].frame_id
                  /\ path.path_data[k].timestamp = t[k].timestamp_s
                  /\ path.path_data[k].x = t[k].cx
                  /\ path.path_data[k].y = t[k].cy
                  /\ path.path_data[k].confidence = t[k].confidence

\* The columns section 4.1 of the specification requires.
SpecRequiredColumns ==
    {"frame_id", "player_id", "timestamp_s", "x1", "y1", "x2", "y2",
     "confidence"}

(* C10: when required columns are absent from the header, ingestion fails  *)
(* with a schema error that lists every missing required column, not only  *)
(* the first one met.                                                      *)
C10_SchemaErrorListsAllMissing ==
    (variant # "none" /\ SpecRequiredColumns \ columns # {}) =>
        /\ pc = "failed"
        /\ \A c \in SpecRequiredColumns \ columns :
              \E i \in 1..Len(raised.columns) : raised.columns[i] = c

\* The cells of the uploaded rows that are no numbers: <<row, column>>.
BadCells ==
    {ic \in (1..Len(rows)) \X columns : ~IsNumber(rows[ic[1]][ic[2]])}

(* C11: cx, cy, w and h are optional: an input with frame_id, entity id,   *)
(* timestamp_s, x1, y1, x2, y2 and confidence but no cx and cy columns is  *)
(* ingested successfully, and every record then has cx = (x1 + x2) / 2 and *)
(* cy = (y1 + y2) / 2.                                                     *)
C11_CentreColumnsAreOptional ==
    (/\ variant # "none"
     /\ columns = AllColumns \ {"cx", "cy"}
     /\ BadCells = {}) =>
        /\ pc # "failed"
        /\ raised = NoError
        /\ Len(df) = Len(rows)
        /\ \A i \in 1..Len(df) :
              /\ RMul(df[i].cx, R(2)) = RAdd(df[i].x1, df[i].x2)
              /\ RMul(df[i].cy, R(2)) = RAdd(df[i].y1, df[i].y2)

(* C12: when a cell cannot be coerced to the numeric type of its column,   *)
(* ingestion fails, producing no records, with a parse error that          *)
(* identifies both the offending row and the offending column.             *)
C12_ParseErrorNamesRowAndColumn ==
    (/\ variant # "none"
     /\ columns = AllColumns
     /\ BadCells # {}) =>
        /\ pc = "failed"
        /\ df = <<>>
        /\ \E ic \in BadCells :
              /\ raised.row = ic[1]
              /\ \E k \in 1..Len(raised.columns) : raised.columns[k] = ic[2]

\* A heat map grid was computed (tracking_analysis.py; the other endpoint
\* computes no grid).
HeatmapDrawn ==
    pc = "done" /\ call = "generate_heatmap" /\ variant = "pandas"
        /\ raised = NoError

HeatmapCalled == pc = "done" /\ call = "generate_heatmap"

CellsOf(grid) ==
    {grid[y][x] : y \in 1..hm.ny, x \in 1..hm.nx}

(* C13: after normalisation every cell of the heat map lies in [0, 1]; if  *)
(* the largest smoothed cell is > 0 the largest normalised cell is exactly *)
(* 1; if it is 0 the grid is returned as it is, all zero, nothing divided. *)
C13_NormalisedGridInUnitInterval ==
    HeatmapDrawn =>
        /\ \A c \in CellsOf(hm.heatmap) :
              IsNumber(c) /\ RLeq(Zero, c) /\ RLeq(c, R(1))
        /\ (\E c \in CellsOf(hm.smoothed) : RLess(Zero, c)) =>
              R(1) \in CellsOf(hm.heatmap)
        /\ (\A c \in CellsOf(hm.smoothed) : c = Zero) =>
              /\ hm.heatmap = hm.smoothed
              /\ CellsOf(hm.heatmap) = {Zero}

\* A grid of several cells with weight in more than one of them.
C13_Witness ==
    /\ HeatmapDrawn
    /\ hm.nx > 1
    /\ \E c \in CellsOf(hm.heatmap) : RLess(Zero, c) /\ RLess(c, R(1))
    /\ \E c \in CellsOf(hm.smoothed) : RLess(R(1), c)

\* The other case of C13: a player whose confidences are all zero.
C13_ZeroGridReached ==
    /\ HeatmapDrawn
    /\ CellsOf(hm.smoothed) = {Zero}

(* C14, as the specification states it: for any non-empty trajectory the   *)
(* heat map with nx = 1 and ny = 1 is [[1.0]].                             *)
C14_SingleCellIsOne ==
    (HeatmapDrawn /\ hm.nx = 1 /\ hm.ny = 1) =>
        hm.heatmap = << <<R(1)>> >>

(* C14, amended: for any non-empty trajectory with at least one positive   *)
(* confidence the heat map with nx = 1 and ny = 1 is [[1.0]]; when every   *)
(* confidence is zero it is [[0.0]].                                       *)
C14_SingleCellIsOneUnlessWeightless ==
    (HeatmapDrawn /\ hm.nx = 1 /\ hm.ny = 1) =>
        IF \E i \in IndicesOf(arg) : RLess(Zero, rows[i].confidence)
        THEN hm.heatmap = << <<R(1)>> >>
        ELSE hm.heatmap = << <<Zero>> >>

\* One cell, several records of the player at different places.
C14_Witness ==
    /\ HeatmapDrawn
    /\ hm.nx = 1
    /\ hm.ny = 1
    /\ \E i, j \in IndicesOf(arg) :
          rows[i].cx # rows[j].cx /\ RLess(Zero, rows[i].confidence)
    /\ hm.heatmap = << <<R(1)>> >>

(* C15: a heat map request for an entity with no records fails with a     *)
(* no-data error raised before the extrema of the dataset are computed;    *)
(* no grid is returned and no file is written.                             *)
C15_NoRecordsFailBeforeExtrema ==
    (HeatmapCalled /\ IndicesOf(arg) = {}) =>
        /\ raised.type \in {"ValueError: No data found for player",
                            "HTTPException 404: No data found for player"}
        /\ raised.player_id = arg
        /\ hm.extrema = NoExtrema
        /\ hm.heatmap = <<>>
        /\ files = {}

\* The dataset holds records, none of them of the player asked for.
C15_Witness ==
    /\ HeatmapCalled
    /\ rows # <<>>
    /\ IndicesOf(arg) = {}
    /\ raised.player_id = arg

(* C16: concurrent requests share no mutable state: under every            *)
(* interleaving each request's result and artifact are what they would be  *)
(* had it run alone; the file written for a player's heat map request      *)
(* holds that player's heat map and stays retrievable by its requester.    *)
C16_RequestsAreIsolated ==
    \A c \in Clients :
        /\ (reqs[c].filename # NoFile /\ ~reqs[c].cleaned) =>
              \E f \in files :
                 /\ <<f.player_id, f.uuid, f.ext>> = reqs[c].filename
                 /\ f.content = heatmap_of(process_data(columns, rows),
                                           reqs[c].player_id, MaxBins, MaxBins)
        /\ (reqs[c].op = "get" /\ ~reqs[c].cleaned) => reqs[c].status = 200

\* Both classes build their object from the uploaded CSV.
BothAccept ==
    /\ missing_columns(columns) = <<>>
    /\ first_row_error(columns, rows) = NoError

\* What the class that was not used returns for the same CSV.
OtherStats ==
    IF variant = "pandas"
    THEN SimplePlayerTrackingData_stats(
             sort_values(rows, <<"frame_id", "timestamp_s", "player_id">>))
    ELSE PlayerTrackingData_stats(process_data(columns, rows))

OtherPath ==
    LET player_data ==
            IF variant = "pandas"
            THEN RowsOf(sort_values(rows,
                     <<"frame_id", "timestamp_s", "player_id">>), arg)
            ELSE PlayerTrackingData_player_data(
                     process_data(columns, rows), arg)
    IN  [i \in 1..Len(player_data) |->
            IF variant = "pandas"
            THEN SimplePlayerTrackingData_path_entry(player_data[i])
            ELSE PlayerTrackingData_path_entry(player_data[i])]

\* Within every trajectory the timestamps never decrease.
MonotonicTimestamps ==
    \A e \in Entities :
        \A k \in 1..(Len(Trajectory(e)) - 1) :
            RLeq(Trajectory(e)[k].timestamp_s, Trajectory(e)[k + 1].timestamp_s)

(* C17: the two variants never diverge: for every dataset both accept they *)
(* return the same entity ids, the same value of every statistic of every  *)
(* entity and the same movement path.                                      *)
C17_VariantsAgree ==
    (pc = "done" /\ raised = NoError /\ BothAccept) =>
        /\ call = "get_player_stats" =>
              {stats[i] : i \in 1..Len(stats)} =
                  {OtherStats[i] : i \in 1..Len(OtherStats)}
        /\ call = "get_player_movement_path" =>
              path.path_data = OtherPath

\* The same, for datasets whose timestamps never decrease in a trajectory.
C17_VariantsAgreeOnMonotonicTime ==
    MonotonicTimestamps => C17_VariantsAgree

\* The object was built and holds the rows.
Constructed == pc \in {"constructed", "done"}

\* The rows of one entity as the methods of the object take them:
\* self.df[self.df['player_id'] == e].sort_values(['frame_id',
\* 'timestamp_s']) there, [row for row in self.data if ...] here.
UsedTrajectory(e) ==
    IF variant = "pandas"
    THEN PlayerTrackingData_player_data(df, e)
    ELSE RowsOf(df, e)

\* Number of times the row r occurs in the sequence s.
Occurrences(s, r) == Cardinality({i \in 1..Len(s) : s[i] = r})

RECURSIVE SumOver(_, _)
SumOver(S, f) ==
    IF S = {} THEN 0
    ELSE LET e == CHOOSE x \in S : TRUE IN f[e] + SumOver(S \ {e}, f)

(* C18: the trajectory of each entity is its records sorted ascending by   *)
(* (frame_id, timestamp_s); records equal on both keep their input order.  *)
C18_TrajectoryIsStableSort ==
    Constructed =>
        \A e \in Entities : UsedTrajectory(e) = Trajectory(e)

\* An entity with two records tied on both keys and two records that are
\* out of order in the input.
C18_Witness ==
    /\ Constructed
    /\ \E e \in Entities :
          /\ \E i, j \in IndicesOf(e) :
                /\ i < j
                /\ rows[i] # rows[j]
                /\ rows[i].frame_id = rows[j].frame_id
                /\ rows[i].timestamp_s = rows[j].timestamp_s
          /\ \E i, j \in IndicesOf(e) :
                /\ i < j
                /\ rows[i].frame_id = rows[j].frame_id
                /\ RLess(rows[j].timestamp_s, rows[i].timestamp_s)

(* C19: grouping neither filters nor deduplicates: every input row is in   *)
(* exactly one trajectory, the frame_counts add up to the number of input  *)
(* rows, and records with the same (frame_id, entity id) are all retained  *)
(* and counted.                                                            *)
C19_GroupingKeepsEveryRow ==
    /\ Constructed =>
          /\ Len(df) = Len(rows)
          /\ \A i \in 1..Len(rows) :
                /\ Occurrences(df, rows[i]) = Occurrences(rows, rows[i])
                /\ \A e \in PlayerIds :
                      Occurrences(UsedTrajectory(e), rows[i]) =
                          IF rows[i].player_id = R(e)
                          THEN Occurrences(rows, rows[i]) ELSE 0
          /\ SumOver(Entities, [e \in Entities |-> Len(UsedTrajectory(e))])
                = Len(rows)
    /\ StatsReturned =>
          /\ \A e \in Entities :
                StatsFor(e).frame_count = Cardinality(IndicesOf(e))
          /\ SumOver(Entities, [e \in Entities |-> StatsFor(e).frame_count])
                = Len(rows)

\* Statistics over a dataset with two records of one entity in one frame
\* and a second entity.
C19_Witness ==
    /\ StatsReturned
    /\ Cardinality(Entities) > 1
    /\ \E i, j \in 1..Len(rows) :
          /\ i # j
          /\ rows[i].frame_id = rows[j].frame_id
          /\ rows[i].player_id = rows[j].player_id

(* C20: assembling the trajectories is idempotent: sorting the assembled   *)
(* records again, globally by (frame_id, timestamp_s, entity id) and then  *)
(* per entity by (frame_id, timestamp_s), leaves every order as it is.     *)
C20_ResortingChangesNothing ==
    Constructed =>
        LET again == sort_values(df, <<"frame_id", "timestamp_s", "player_id">>)
        IN  /\ again = df
            /\ \A e \in Entities :
                  /\ sort_values(UsedTrajectory(e), <<"frame_id", "timestamp_s">>)
                        = UsedTrajectory(e)
                  /\ sort_values(RowsOf(again, e), <<"frame_id", "timestamp_s">>)
                        = UsedTrajectory(e)

\* Records tied on every sort key, given out of order with a third one.
C20_Witness ==
    /\ Constructed
    /\ df # rows
    /\ \E i, j \in 1..Len(rows) :
          /\ i < j
          /\ rows[i] # rows[j]
          /\ rows[i].frame_id = rows[j].frame_id
          /\ rows[i].timestamp_s = rows[j].timestamp_s
          /\ rows[i].player_id = rows[j].player_id

(* C21: get_player_stats visits the entities in ascending entity id order: *)
(* the keys of the mapping it returns ascend, whatever the order in which  *)
(* the entities first appear in the input.                                 *)
C21_KeysAscend ==
    StatsReturned =>
        \A i, j \in 1..Len(stats) :
            i < j => stats[i].player_id < stats[j].player_id

\* The extrema of cx and cy over every row of the uploaded CSV.
DatasetExtrema ==
    <<RMin(Column(rows, "cx")), RMax(Column(rows, "cx")),
      RMin(Column(rows, "cy")), RMax(Column(rows, "cy"))>>

(* C22: the extrema x_min, x_max, y_min, y_max a heat map is scaled with   *)
(* are taken over the cx and cy of all records of the dataset, not only    *)
(* over those of the requested entity.                                     *)
C22_ExtremaOverDataset ==
    (HeatmapCalled /\ raised = NoError) => hm.extrema = DatasetExtrema

(* C23: when the dataset is degenerate on an axis (x_max = x_min, or       *)
(* y_max = y_min) the scaling divides nothing by zero and every point gets *)
(* coordinate 0 on that axis: all weight lies in the first column (row) of *)
(* the binned grid.                                                        *)
C23_DegenerateAxisMapsToZero ==
    HeatmapDrawn =>
        /\ hm.extrema[1] = hm.extrema[2] =>
              \A y \in 1..hm.ny, x \in 2..hm.nx : hm.binned[y][x] = Zero
        /\ hm.extrema[3] = hm.extrema[4] =>
              \A y \in 2..hm.ny, x \in 1..hm.nx : hm.binned[y][x] = Zero

\* Section 4.4 of the specification, steps 2 and 3, written from its words.
\* The scaled coordinate of v between the extrema lo and hi on an axis of
\* the given length; 0 on a degenerate axis.
SpecScaled(v, lo, hi, length) ==
    IF hi = lo THEN Zero
    ELSE RMul(R(length), PyDiv(RSub(v, lo), RSub(hi, lo)))

\* Edge k (from 0) of n evenly spaced edges over [0, length].
SpecEdge(k, n, length) == IF n = 1 THEN Zero ELSE Norm(k * length, n - 1)

\* The right-open bins [edge k, edge k+1) that contain s; the last edge
\* opens the last bin.
SpecBins(s, n, length) ==
    {k \in 0..(n - 1) :
        /\ RLeq(SpecEdge(k, n, length), s)
        /\ k = n - 1 \/ RLess(s, SpecEdge(k + 1, n, length))}

\* The confidences, in tenths, the rows of the requested player add to
\* cell [y][x].
SpecCell(x, y) ==
    LET t == Trajectory(arg)
        e == DatasetExtrema
        here == {k \in 1..Len(t) :
                    /\ x \in SpecBins(SpecScaled(t[k].cx, e[1], e[2], field_length),
                                      hm.nx, field_length)
                    /\ y \in SpecBins(SpecScaled(t[k].cy, e[3], e[4], field_width),
                                      hm.ny, field_width)}
    IN  SumOver(here, [k \in here |->
                  t[k].confidence[1] * (10 \div t[k].confidence[2])])

\* Every cell of the binned grid holds the confidences of the points of
\* its bin, in tenths.
BinnedAsSpecified ==
    \A y \in 1..hm.ny, x \in 1..hm.nx :
        hm.binned[y][x] = Norm(SpecCell(x - 1, y - 1), 10)

NonDegenerate ==
    DatasetExtrema[1] # DatasetExtrema[2] /\ DatasetExtrema[3] # DatasetExtrema[4]

(* C24: in binning each point goes to the right-open bin [edge_i, edge_i+1) *)
(* that contains its scaled coordinate, its confidence (not the count 1)    *)
(* is added to cell [y_idx][x_idx], and a point whose index falls outside   *)
(* the grid is dropped, changing no cell.                                   *)
C24_BinningIsRightOpen ==
    HeatmapDrawn => BinnedAsSpecified

\* The same on datasets that are degenerate on no axis.
C24_BinningIsRightOpenOffDegenerate ==
    (HeatmapDrawn /\ NonDegenerate) => BinnedAsSpecified

\* The kernel applied along both axes with every cell outside the grid
\* taken as zero.
ZeroPadded(grid) ==
    [y \in 1..Len(grid) |->
        [x \in 1..Len(grid[y]) |->
            RSum([k \in 1..9 |->
                LET dy == ((k - 1) \div 3) - 1
                    dx == ((k - 1) % 3) - 1
                IN  IF y + dy \in 1..Len(grid) /\ x + dx \in 1..Len(grid[y])
                    THEN RMul(RMul(gaussian_kernel[dy + 2],
                                   gaussian_kernel[dx + 2]),
                              grid[y + dy][x + dx])
                    ELSE Zero])]]

\* Total mass of a grid.
Mass(grid) == RSum([y \in 1..Len(grid) |-> RSum(grid[y])])

(* C25: Gaussian smoothing takes everything outside the ny x nx grid as    *)
(* zero (zero-padding): weight of a border cell is never reflected back    *)
(* into the grid, and smoothing never increases the total mass.            *)
C25_SmoothingZeroPads ==
    HeatmapDrawn =>
        /\ hm.smoothed = ZeroPadded(hm.binned)
        /\ RLeq(Mass(hm.smoothed), Mass(hm.binned))

\* What the smoothing does instead: the mass of the grid is kept whole.
C25_SmoothingKeepsMass ==
    HeatmapDrawn => Mass(hm.smoothed) = Mass(hm.binned)

\* Sum, in tenths, of the confidences of the rows of the requested player
\* that satisfy the test.
ConfidenceTenths(test(_)) ==
    LET t == Trajectory(arg)
        I == {k \in 1..Len(t) : test(t[k])}
    IN  SumOver(I, [k \in I |-> t[k].confidence[1] * (10 \div t[k].confidence[2])])

(* C26: when the dataset extrema are degenerate on no axis, generate_heatmap *)
(* drops no record of the requested player: every index lies in the grid,    *)
(* the dataset-maximum coordinate lands in the last index, and the grid      *)
(* before smoothing sums to the sum of the player's confidences.             *)
C26_NoRecordDropped ==
    (HeatmapDrawn /\ NonDegenerate) =>
        /\ Mass(hm.binned) = Norm(ConfidenceTenths(LAMBDA r : TRUE), 10)
        /\ RLeq(Norm(ConfidenceTenths(LAMBDA r : r.cx = DatasetExtrema[2]), 10),
                RSum([y \in 1..hm.ny |-> hm.binned[y][hm.nx]]))
        /\ RLeq(Norm(ConfidenceTenths(LAMBDA r : r.cy = DatasetExtrema[4]), 10),
                RSum(hm.binned[hm.ny]))

\* A grid of several columns and a weighted record of the player on the
\* largest x of the dataset, another one elsewhere.
C26_Witness ==
    /\ HeatmapDrawn
    /\ NonDegenerate
    /\ hm.nx > 1
    /\ ConfidenceTenths(LAMBDA r : r.cx = DatasetExtrema[2]) > 0
    /\ ConfidenceTenths(LAMBDA r : r.cx # DatasetExtrema[2]) > 0

(* C27: the /generate-heatmap endpoint of the manual-loop variant answers  *)
(* a request for a player without rows with HTTP status 404, the status it *)
(* raises for that case, and writes no heat map data file.                 *)
C27_NoRowsAnswers404 ==
    (HeatmapCalled /\ variant = "simple" /\ IndicesOf(arg) = {}) =>
        /\ response = 404
        /\ files = {}

\* A record() call for the model is between taking and releasing the lock.
Applying(m) ==
    \E t \in MetricThreads :
        /\ threads[t].model = m
        /\ threads[t].pc \notin {"idle", "record:20"}

(* C28: the MetricsStore is linearizable: whenever no record() is being    *)
(* applied to a model, its calls counter is the number of record() calls   *)
(* that returned for it, its window holds the latencies of the latest      *)
(* min(calls, 100) of them in call order, an entry is changed by record()  *)
(* calls for its own model only, and every snapshot shows, for each model, *)
(* the entry as it was after some whole number of record() calls.          *)
C28_MetricsStoreLinearizable ==
    /\ \A m \in ModelNames :
          ~Applying(m) =>
              /\ data[m] = entry_after(recorded[m])
              /\ data[m].calls = Len(recorded[m])
              /\ Len(data[m].latencies) =
                    IF data[m].calls < ROLLING_WINDOW THEN data[m].calls
                    ELSE ROLLING_WINDOW
              /\ \A k \in 1..Len(data[m].latencies) :
                    data[m].latencies[k] =
                        recorded[m][Len(recorded[m])
                                    - Len(data[m].latencies) + k].ms
    /\ \A t \in MetricThreads :
          threads[t].snap # NoSnapshot =>
              \A i \in 1..Len(Models) :
                  /\ threads[t].snap[i].calls <= Len(recorded[Models[i]])
                  /\ threads[t].snap[i] =
                        snapshot_entry(entry_after(
                            SubSeq(recorded[Models[i]], 1,
                                   threads[t].snap[i].calls)))

\* A thread has seen a snapshot taken after a record() into a full window,
\* and a thread is waiting for the lock another thread holds.
C28_Witness ==
    /\ \E t \in MetricThreads :
          /\ threads[t].snap # NoSnapshot
          /\ threads[t].snap[1].calls > ROLLING_WINDOW
          /\ Len(data[Models[1]].latencies) = ROLLING_WINDOW
    /\ \E t \in MetricThreads :
          /\ threads[t].pc \in {"record:20", "snapshot:29"}
          /\ lock \notin {"none", t}

(* C29: upload_video keeps its size limit on every chunk sequence: the      *)
(* destination file never holds more than max_bytes; once the bytes read    *)
(* exceed max_bytes the request has ended with 413, the file is gone and    *)
(* save_upload was not called; and an upload that succeeded is recorded     *)
(* with size_bytes equal to the bytes written to the file.                  *)
C29_SizeLimitEnforced ==
    /\ upload.disk <= max_bytes(upload.max_mb)
    /\ upload.peak <= max_bytes(upload.max_mb)
    /\ upload.written > max_bytes(upload.max_mb) =>
          /\ upload.pc = "done"
          /\ upload.status = 413
          /\ ~upload.exists
          /\ upload.saved = NotSaved
    /\ upload.status = 200 =>
          /\ upload.exists
          /\ upload.saved = upload.disk
          /\ upload.saved = upload.written

\* The third chunk takes an upload past a limit of two megabytes.
C29_Witness ==
    /\ upload.status = 413
    /\ upload.max_mb = 2
    /\ upload.chunks >= 3
    /\ upload.peak > 0

(* C30: run_inference keeps the status of each failure: an upload id that   *)
(* names no upload is answered 404 and a missing file 410, both with no     *)
(* model service contacted; an answer of a service other than 200 is        *)
(* answered 502; none of them is answered 500; and status "ok" is returned  *)
(* only after a service answered 200.                                       *)
C30_FailuresKeepTheirStatus ==
    inference.pc = "done" =>
        /\ inference.id # "known" =>
              inference.status = 404 /\ inference.contacted = "none"
        /\ inference.id = "known" /\ ~inference.file_exists =>
              inference.status = 410 /\ inference.contacted = "none"
        /\ inference.svc.code \notin {NoAnswer.code, ConnectError, 200} =>
              inference.status = 502
        /\ inference.result = "ok" =>
              inference.svc.code = 200 /\ inference.contacted = inference.task

====
